---- MODULE Spec2Model ----
(***************************************************************************)
(* Model of NotesClient.updateNote / updateNoteWithRetry                   *)
(* (src/src/client/notes.ts) running against the remote notes service.     *)
(* Each editor runs one updateNote call; a call is suspended at every      *)
(* `await` (one PUT or the GET refetch), so calls of different editors     *)
(* interleave request by request.  The remote service and makeRequest      *)
(* (client/base.ts) are not part of the sources and are modelled from the  *)
(* specification: a PUT is applied iff its If-Match header matches the     *)
(* note's current tag, otherwise it is answered 412.                       *)
(***************************************************************************)
EXTENDS Integers, Sequences, FiniteSets, TLC

\* ---------------------------------------------------------------- bounds
MaxExternalEdits == 2

\* Two editors, numbered in the order in which they call updateNote.
Editors == {1, 2}
NoteIds == {1, 2}

\* ------------------------------------------------------------ tag strings
\* A tag is a sequence of characters; Q is the double quote character.
Q == "\""
Digit == <<"0", "1", "2", "3", "4", "5", "6", "7", "8", "9">>

\* The service's tag of revision v of a note (the `etag` field of the note).
Tok(v) == <<Digit[v + 1]>>

\* `"${etag}"` (notes.ts:51, second element)
Quoted(etag) == <<Q>> \o etag \o <<Q>>

\* etag.replace(/"/g, '') (notes.ts:51, third element)
StripQuotes(etag) == SelectSeq(etag, LAMBDA ch : ch # Q)

\* Faulty variants of etagFormats: the quoted tag first, the quoted tag last,
\* the stripped tag first.
EtagFormatsSwapped(etag) == <<Quoted(etag), etag, StripQuotes(etag)>>
EtagFormatsQuotedLast(etag) == <<etag, StripQuotes(etag), Quoted(etag)>>
EtagFormatsStripFirst(etag) == <<StripQuotes(etag), Quoted(etag), etag>>

\* const etagFormats = [etag, `"${etag}"`, etag.replace(/"/g, '')]
EtagFormats(etag) == <<etag, Quoted(etag), StripQuotes(etag)>>

\* ------------------------------------------------------------------ errors
\* An Error thrown by makeRequest.  `status` 0 is a transport failure.  `rc`
\* and `enc` identify the request that produced the error object (the
\* logical attempt and the encoding index; enc 0 is the GET refetch).
PreconditionFailed == 412
FaultStatuses == {0, 401, 404}

\* The status code as it is printed in the message of the Error.
StatusText(status) ==
    CASE status = 412 -> "412"
      [] status = 401 -> "401"
      [] status = 404 -> "404"
      [] OTHER -> "ECONNREFUSED"

\* The text of the message.
ErrorMessage(status) ==
    IF status = 0 THEN "connect " \o StatusText(status)
    ELSE "Request failed with status code " \o StatusText(status)

MakeError(status, rc, enc) ==
    [status |-> status, message |-> ErrorMessage(status), rc |-> rc, enc |-> enc]

NoError == [status |-> 200, message |-> "", rc |-> 0, enc |-> 0]

\* text.includes(part): part occurs somewhere in text.
Includes(text, part) ==
    \E i \in 1..(Len(text) - Len(part) + 1) : SubSeq(text, i, i + Len(part) - 1) = part

\* (error instanceof Error) && error.message.includes('412')
Is412(error) ==
    /\ error # NoError
    /\ Includes(error.message, "412")

\* Faulty variant: the loop goes on to the next format after any error.
TryNextFormatAlways(e) == TRUE

\* notes.ts:65 negated: the loop goes on to the next format only after a 412.
TryNextFormat(e) == Is412(e)

\* Faulty variants of the condition of the recovery: after any error, never,
\* and on every attempt.
ShouldRefetchAnyError(e, rc) == rc = 0
ShouldRefetchNever(e, rc) == FALSE
ShouldRefetchIgnoringCount(e, rc) == Is412(e)

\* notes.ts:75: the condition of the recovery.
ShouldRefetch(e, rc) == Is412(e) /\ rc = 0

\* Faulty variant: the recursive call is given the tag of the caller again.
RetryEtagKeepsOld(freshNote, oldEtag) == oldEtag

\* notes.ts:78: the tag the recursive call is given.
RetryEtag(freshNote, oldEtag) == freshNote.etag

\* Faulty variant: the error of the refetch is thrown.
RefreshFailureThrowsRefreshError(originalError, refreshError) == refreshError

\* notes.ts:79-82: what is thrown when the refetch fails.
RefreshFailure(originalError, refreshError) == originalError

\* ----------------------------------------------------------------- payload
\* title?, content?, category?: an omitted field is Undefined and is left
\* unchanged by the service.
Undefined == "undefined"
Deltas ==
    { [title |-> Undefined, content |-> "y", category |-> Undefined],
      [title |-> "B", content |-> Undefined, category |-> "d"] }

\* The notes a caller creates: title, content and category are all given.
NewNotes == { [title |-> "N", content |-> "n", category |-> "c"] }

\* The tags a caller may pass: the tag of the first revision as the note
\* carries it, the same tag in double quotes, and with one stray quote.
CallerTags == {Tok(0), Quoted(Tok(0)), <<Q>> \o Tok(0)}

\* ================================================================ tracker
\* The request/tool-call tracker of src/src/http-server.ts.
\*
\* A property key is a JavaScript string, written as a string.
EmptyString == ""
Unknown == "unknown"

\* s.charAt(i - 1)
CharAt(s, i) == SubSeq(s, i, i)

Digits == {"0", "1", "2", "3", "4", "5", "6", "7", "8", "9"}

DigitValue(d) ==
    CASE d = "0" -> 0 [] d = "1" -> 1 [] d = "2" -> 2 [] d = "3" -> 3
      [] d = "4" -> 4 [] d = "5" -> 5 [] d = "6" -> 6 [] d = "7" -> 7
      [] d = "8" -> 8 [] d = "9" -> 9

\* A decimal numeral as a number prints: digits only, no leading zero.
IsCanonicalNumeral(s) ==
    /\ Len(s) >= 1
    /\ \A i \in 1..Len(s) : CharAt(s, i) \in Digits
    /\ (Len(s) = 1 \/ CharAt(s, 1) # "0")

\* a < b as numbers, for two canonical numerals.
NumeralLess(a, b) ==
    \/ Len(a) < Len(b)
    \/ /\ Len(a) = Len(b)
       /\ \E i \in 1..Len(a) :
             /\ SubSeq(a, 1, i - 1) = SubSeq(b, 1, i - 1)
             /\ DigitValue(CharAt(a, i)) < DigitValue(CharAt(b, i))

\* The largest array index, 2^32 - 2.
MaxArrayIndex == "4294967294"

\* A string that is an array index ("0", "7", ..., "4294967294"): a
\* JavaScript object lists such keys first, in ascending numeric order, and
\* only then its other string keys in insertion order.
IsArrayIndex(k) == IsCanonicalNumeral(k) /\ ~NumeralLess(MaxArrayIndex, k)

\* A Record<string, number>: the sequence of its [k, v] entries in the order
\* in which Object.entries / JSON.stringify list them.
HasKey(obj, k) == \E i \in DOMAIN obj : obj[i].k = k

KeyPos(obj, k) == CHOOSE i \in DOMAIN obj : obj[i].k = k

\* The accessor of Object.prototype through which the prototype of an object
\* is read and assigned.
ProtoName == "__proto__"

\* The names every object inherits from Object.prototype: obj["constructor"]
\* is a function, obj["__proto__"] is Object.prototype itself, also when obj
\* has no such key of its own.
ObjectPrototypeNames ==
    {"constructor", "toString", "valueOf", "hasOwnProperty", "isPrototypeOf",
     "propertyIsEnumerable", "toLocaleString", "__defineGetter__",
     "__defineSetter__", "__lookupGetter__", "__lookupSetter__", ProtoName}

IsInherited(k) == k \in ObjectPrototypeNames

\* A value that is not a number is written as a number below zero:
\* NotANumber(0) is the inherited function or object, NotANumber(n) the
\* string made of its text followed by n characters '1'.
NotANumber(n) == -(n + 1)
IsNumber(v) == v >= 0

\* v + 1: addition on a number; on a function or a string, the string with
\* one more '1' at its end.
PlusOne(v) == IF IsNumber(v) THEN v + 1 ELSE v - 1

\* obj[k] || 0
GetOrZero(obj, k) ==
    IF HasKey(obj, k) THEN obj[KeyPos(obj, k)].v
    ELSE IF IsInherited(k) THEN NotANumber(0)
    ELSE 0

\* The number of leading array-index entries smaller than k.
IndexSlot(obj, k) ==
    Cardinality({i \in DOMAIN obj : IsArrayIndex(obj[i].k) /\ NumeralLess(obj[i].k, k)})

\* The object with the own property k set to v, as { ...obj, [k]: v } gives it.
DefineKey(obj, k, v) ==
    IF HasKey(obj, k)
    THEN [obj EXCEPT ![KeyPos(obj, k)] = [k |-> k, v |-> v]]
    ELSE IF IsArrayIndex(k)
         THEN SubSeq(obj, 1, IndexSlot(obj, k)) \o <<[k |-> k, v |-> v]>>
                  \o SubSeq(obj, IndexSlot(obj, k) + 1, Len(obj))
         ELSE Append(obj, [k |-> k, v |-> v])

\* obj[k] = v, for v a number or a string. On an object without an own
\* "__proto__" the assignment goes to the inherited accessor, which ignores
\* a value that is not an object: no key is created.
SetKey(obj, k, v) ==
    IF k = ProtoName /\ ~HasKey(obj, k) THEN obj ELSE DefineKey(obj, k, v)

\* Faulty variant: the counter is set to 1 instead of incremented.
IncrementResets(obj, k) == SetKey(obj, k, 1)

\* obj[k] = (obj[k] || 0) + 1
Increment(obj, k) == SetKey(obj, k, PlusOne(GetOrZero(obj, k)))

\* analytics.recentToolCalls.length > 100 (http-server.ts:148)
RecentToolCallsCap == 100
\* .slice(0, 20) of the clients by IP (http-server.ts:248)
TopClients == 20
\* .slice(0, 24) of the hourly buckets (http-server.ts:253)
LastHours == 24
\* analytics.recentToolCalls.slice(0, 20) (http-server.ts:276)
RecentShown == 20
\* userAgent.substring(0, 30) (http-server.ts:133)
ShortAgentLength == 30

\* The clock counts ticks; an hour has TicksPerHour of them.
TicksPerHour == 2

\* new Date().toISOString(): the instant, as a value ordered like the text.
IsoString(t) == t

\* A number of a date or time as toISOString pads it.
TwoDigits(n) == IF n < 10 THEN "0" \o ToString(n) ELSE ToString(n)

\* new Date().toISOString().substring(0, 13) + ':00', the clock counting
\* from 2025-01-01T00:00Z and staying within that month.
HourKey(t) ==
    LET h == t \div TicksPerHour
    IN  "2025-01-" \o TwoDigits(1 + (h \div 24)) \o "T" \o TwoDigits(h % 24) \o ":00"

\* const defaultAnalytics (http-server.ts:55-66), built when the module loads.
DefaultAnalytics(t) ==
    [serverStartTime |-> IsoString(t),
     totalRequests |-> 0,
     totalToolCalls |-> 0,
     requestsByMethod |-> <<>>,
     requestsByEndpoint |-> <<>>,
     toolCalls |-> <<>>,
     recentToolCalls |-> <<>>,
     clientsByIp |-> <<>>,
     clientsByUserAgent |-> <<>>,
     hourlyRequests |-> <<>>]

\* An inbound request as trackRequest reads it: req.method, the
\* x-forwarded-for header (NoHeader, or its comma-separated elements), req.ip
\* (EmptyString when undefined) and the user-agent header (NoHeader, or
\* UserAgent(text)).
NoHeader == <<>>
UserAgent(text) == <<text>>

\* (req.headers['x-forwarded-for'] as string)?.split(',')[0] || req.ip || 'unknown'
ClientIp(req) ==
    IF req.xff # NoHeader /\ Head(req.xff) # EmptyString THEN Head(req.xff)
    ELSE IF req.ip # EmptyString THEN req.ip
    ELSE Unknown

\* The characters of ua before its first '/': ua.split('/')[0]
RECURSIVE BeforeSlash(_)
BeforeSlash(ua) ==
    IF ua = "" \/ CharAt(ua, 1) = "/" THEN ""
    ELSE CharAt(ua, 1) \o BeforeSlash(SubSeq(ua, 2, Len(ua)))

\* ua.substring(0, 30)
Substring30(ua) == SubSeq(ua, 1, IF Len(ua) < ShortAgentLength THEN Len(ua) ELSE ShortAgentLength)

UnknownAgent == "unknown"

\* const userAgent = req.headers['user-agent'] || 'unknown';
\* const shortAgent = userAgent.split('/')[0] || userAgent.substring(0, 30);
ShortAgent(req) ==
    LET userAgent == IF req.ua # NoHeader /\ Head(req.ua) # ""
                     THEN Head(req.ua) ELSE UnknownAgent
    IN  IF BeforeSlash(userAgent) # "" THEN BeforeSlash(userAgent)
        ELSE Substring30(userAgent)

\* function trackRequest(req, endpoint) (http-server.ts:124-138) applied to
\* the analytics a at time t.
TrackRequest(a, req, endpoint, t) ==
    [a EXCEPT
        !.totalRequests = @ + 1,
        !.requestsByMethod = Increment(@, req.method),
        !.requestsByEndpoint = Increment(@, endpoint),
        !.clientsByIp = Increment(@, ClientIp(req)),
        !.clientsByUserAgent = Increment(@, ShortAgent(req)),
        !.hourlyRequests = Increment(@, HourKey(t))]

\* recentToolCalls.unshift(entry); if (length > 100) recentToolCalls.pop()
Unshift(ring, entry) == <<entry>> \o ring

\* Faulty variant: the ring is never trimmed.
TrimRingNever(ring) == ring

TrimRing(ring) ==
    IF Len(ring) > RecentToolCallsCap THEN SubSeq(ring, 1, Len(ring) - 1) ELSE ring

\* Faulty variant: a tool call is also counted as a request.
TrackToolCallCountsRequest(a, toolName, clientIp, t) ==
    [a EXCEPT
        !.totalRequests = @ + 1,
        !.totalToolCalls = @ + 1,
        !.toolCalls = Increment(@, toolName),
        !.recentToolCalls =
            TrimRing(Unshift(@, [tool |-> toolName, timestamp |-> IsoString(t),
                                 clientIp |-> clientIp]))]

\* trackToolCall up to the point where analytics.toolCalls[toolName] throws
\* (http-server.ts:141-142): the total has been incremented.
TrackToolCallThrowing(a) == [a EXCEPT !.totalToolCalls = @ + 1]

\* function trackToolCall(toolName, clientIp) (http-server.ts:140-151), for
\* a tool name that is a string.
TrackToolCall(a, toolName, clientIp, t) ==
    [a EXCEPT
        !.totalToolCalls = @ + 1,
        !.toolCalls = Increment(@, toolName),
        !.recentToolCalls =
            TrimRing(Unshift(@, [tool |-> toolName, timestamp |-> IsoString(t),
                                 clientIp |-> clientIp]))]

\* JSON.stringify(analytics, null, 2): the text, as the sequence of its
\* top-level members in the order of the object's fields.
FieldNames ==
    <<"serverStartTime", "totalRequests", "totalToolCalls", "requestsByMethod",
      "requestsByEndpoint", "toolCalls", "recentToolCalls", "clientsByIp",
      "clientsByUserAgent", "hourlyRequests">>

Stringify(a) ==
    [i \in 1..Len(FieldNames) |-> [name |-> FieldNames[i], value |-> a[FieldNames[i]]]]

\* JSON.parse accepts a text that was written whole and throws on a text cut
\* short by a failed write.
ParseThrows(text) == Len(text) < Len(FieldNames)

Member(text, name) == text[CHOOSE i \in DOMAIN text : text[i].name = name].value

\* JSON.parse(data)
Parse(text) ==
    [serverStartTime |-> Member(text, "serverStartTime"),
     totalRequests |-> Member(text, "totalRequests"),
     totalToolCalls |-> Member(text, "totalToolCalls"),
     requestsByMethod |-> Member(text, "requestsByMethod"),
     requestsByEndpoint |-> Member(text, "requestsByEndpoint"),
     toolCalls |-> Member(text, "toolCalls"),
     recentToolCalls |-> Member(text, "recentToolCalls"),
     clientsByIp |-> Member(text, "clientsByIp"),
     clientsByUserAgent |-> Member(text, "clientsByUserAgent"),
     hourlyRequests |-> Member(text, "hourlyRequests")]

\* The snapshot file: absent, or a text.
NoFile == [exists |-> FALSE, text |-> <<>>]
FileOf(text) == [exists |-> TRUE, text |-> text]

\* The lengths at which a failed write can leave the text.
TruncatedLengths == {0, 4}

\* Faulty variant: the start time of the earlier process is replaced.
LoadedStampedNow(loadedAnalytics, t) ==
    [loadedAnalytics EXCEPT !.serverStartTime = IsoString(t)]

\* return loadedAnalytics (http-server.ts:75)
Loaded(loadedAnalytics, t) == loadedAnalytics

\* return { ...defaultAnalytics } (http-server.ts:80)
LoadFallback(t) == DefaultAnalytics(t)

\* function loadAnalytics() (http-server.ts:69-81) at time t; readable says
\* whether readFileSync returns the text.
LoadAnalytics(f, readable, t) ==
    IF f.exists /\ readable /\ ~ParseThrows(f.text)
    THEN Loaded(Parse(f.text), t)
    ELSE LoadFallback(t)

\* catch (error) { console.warn(...) } (http-server.ts:91-93)
AfterFailedSave(a, t) == a

\* The outcomes of fs.writeFileSync: "ok", "denied" (it throws before it
\* writes) and "partial" (it throws after writing k members).
WriteOutcomes == {"ok", "denied", "partial"}

\* Faulty variant: the file is left as it was.
WrittenFileKeepsOld(f, a) == f

\* fs.writeFileSync(ANALYTICS_FILE, JSON.stringify(analytics, null, 2))
WrittenFile(f, a) == FileOf(Stringify(a))

\* The file after saveAnalytics() (http-server.ts:84-94).
SavedFile(f, a, outcome, k) ==
    CASE outcome = "ok" -> WrittenFile(f, a)
      [] outcome = "denied" -> f
      [] OTHER -> FileOf(SubSeq(Stringify(a), 1, k))

\* const start = new Date(analytics.serverStartTime).getTime()
UptimeStart(a) == a.serverStartTime

\* function getUptime() (http-server.ts:114-122): whole hours and the rest.
GetUptime(a, t) ==
    LET diff == t - UptimeStart(a)
    IN  [hours |-> diff \div TicksPerHour, rest |-> diff % TicksPerHour]

\* ------------------------------------------------------------ the summary
\* The position of entry i after a stable sort by descending count, the
\* counts being numbers.
CountRank(obj, i) ==
    Cardinality({j \in DOMAIN obj : obj[j].v > obj[i].v})
      + Cardinality({j \in DOMAIN obj : j < i /\ obj[j].v = obj[i].v}) + 1

\* Every order of the entries.
Orders(obj) == {[p \in 1..Len(obj) |-> obj[f[p]]] : f \in Permutations(1..Len(obj))}

\* Object.entries(obj).sort(([, a], [, b]) => b - a): the orders the sort may
\* leave. Numbers are sorted by descending count, equal counts keeping their
\* order. When a count is not a number b - a is NaN, the comparator is
\* inconsistent and the order is whatever the engine's sort leaves.
SortByCountDesc(obj) ==
    IF \A i \in DOMAIN obj : IsNumber(obj[i].v)
    THEN {[p \in 1..Len(obj) |-> obj[CHOOSE i \in DOMAIN obj : CountRank(obj, i) = p]]}
    ELSE Orders(obj)

\* a.localeCompare(b) < 0 for two hour keys: they have the same length and
\* differ in digits only.
HourKeyLess(a, b) ==
    \E i \in 1..Len(a) :
        /\ SubSeq(a, 1, i - 1) = SubSeq(b, 1, i - 1)
        /\ CharAt(a, i) # CharAt(b, i)
        /\ DigitValue(CharAt(a, i)) < DigitValue(CharAt(b, i))

\* The position of entry i after a sort by descending key.
KeyRank(obj, i) == Cardinality({j \in DOMAIN obj : HourKeyLess(obj[i].k, obj[j].k)}) + 1

\* Object.entries(obj).sort(([a], [b]) => b.localeCompare(a))
SortByKeyDesc(obj) ==
    [p \in 1..Len(obj) |-> obj[CHOOSE i \in DOMAIN obj : KeyRank(obj, i) = p]]

\* entries.slice(0, n)
Slice(entries, n) == SubSeq(entries, 1, IF Len(entries) < n THEN Len(entries) ELSE n)

\* entries.reverse()
Reverse(entries) == [i \in 1..Len(entries) |-> entries[Len(entries) + 1 - i]]

\* entries.reduce((acc, [k, v]) => ({ ...acc, [k]: v }), {})
RECURSIVE ObjectOf(_)
ObjectOf(entries) ==
    IF entries = <<>> THEN <<>>
    ELSE LET e == entries[Len(entries)]
         IN  DefineKey(ObjectOf(SubSeq(entries, 1, Len(entries) - 1)), e.k, e.v)

\* const sortedClients: one object for each order the sort may leave.
SortedClients(clientsByIp) ==
    {ObjectOf(Slice(sorted, TopClients)) : sorted \in SortByCountDesc(clientsByIp)}

\* The breakdown by tool: one object for each order the sort may leave.
SortedTools(toolCalls) == {ObjectOf(sorted) : sorted \in SortByCountDesc(toolCalls)}

Last24Hours(hourlyRequests) ==
    ObjectOf(Reverse(Slice(SortByKeyDesc(hourlyRequests), LastHours)))

\* The bodies the answer of GET /analytics may have (http-server.ts:259-277):
\* one, unless a sort met a count that is not a number.
Summaries(a, t) ==
    {[uptime |-> GetUptime(a, t),
      serverStartTime |-> a.serverStartTime,
      totalRequests |-> a.totalRequests,
      totalToolCalls |-> a.totalToolCalls,
      uniqueClients |-> Len(a.clientsByIp),
      byMethod |-> a.requestsByMethod,
      byEndpoint |-> a.requestsByEndpoint,
      byTool |-> byTool,
      byIp |-> byIp,
      byUserAgent |-> a.clientsByUserAgent,
      hourlyRequests |-> Last24Hours(a.hourlyRequests),
      recentToolCalls |-> Slice(a.recentToolCalls, RecentShown)] :
        byTool \in SortedTools(a.toolCalls), byIp \in SortedClients(a.clientsByIp)}

NoResponse == [none |-> TRUE]

\* The routes that call trackRequest (http-server.ts:226, 240, 281, 567, 597).
Endpoints == {"/health", "/analytics", "/analytics/dashboard", "/mcp", "/"}
Pages == {"/health", "/analytics/dashboard", "/"}

\* ------------------------------------------------------- the /mcp request
\* A JSON-RPC message of a request body: its method and params.name, a string
\* (EmptyString when there is none).
Msg(method, name) == [method |-> method, name |-> name, convertible |-> TRUE]

\* A message whose params.name is the object {"toString": null, "valueOf":
\* null}, given by its JSON text: a truthy value that cannot be converted to
\* a string, so that using it as a property key throws a TypeError.
ObjectNameMsg(method) ==
    [method |-> method, name |-> "{\"toString\":null,\"valueOf\":null}",
     convertible |-> FALSE]

\* req.body: no body, one JSON-RPC object, or an array (a batch) of them.
NoBody == [batch |-> FALSE, msgs |-> <<>>]
Single(msg) == [batch |-> FALSE, msgs |-> <<msg>>]
Batch(msgs) == [batch |-> TRUE, msgs |-> msgs]

\* req.body?.method === 'tools/call' && req.body?.params?.name
IsToolCall(body) ==
    /\ ~body.batch /\ Len(body.msgs) = 1
    /\ body.msgs[1].method = "tools/call"
    /\ body.msgs[1].name # EmptyString

\* The tool invocations a body carries.
Invocations(body) ==
    {i \in DOMAIN body.msgs :
        body.msgs[i].method = "tools/call" /\ body.msgs[i].name # EmptyString}

\* Credentials: host, username, password ("" when not given).
NoCredentials == [host |-> "", username |-> "", password |-> ""]

\* setCredentials(host, username, password) of the client manager: the
\* three values become the stored credentials.
SetCredentials(host, username, password) ==
    [host |-> host, username |-> username, password |-> password]

\* Faulty variant: the fallback wins when it is set.
OrElseFallbackFirst(value, fallback) == IF fallback # "" THEN fallback ELSE value

\* value || fallback, on strings
OrElse(value, fallback) == IF value # "" THEN value ELSE fallback

\* function initializeCredentials(req) (http-server.ts:160-169): the
\* credentials held by the client manager afterwards.
InitializeCredentials(current, query, environment) ==
    LET host == OrElse(query.host, environment.host)
        username == OrElse(query.username, environment.username)
        password == OrElse(query.password, environment.password)
    IN  IF host # "" /\ username # "" /\ password # ""
        THEN SetCredentials(host, username, password)
        ELSE current

\* ================================================================== notes
NoNote == [id |-> 0, etag |-> <<>>, title |-> "", content |-> "", category |-> ""]
NoData == [title |-> Undefined, content |-> Undefined, category |-> Undefined]

VARIABLES
    quoting,      \* which form of If-Match the service accepts
    notes,        \* the service's notes: id -> [ver, title, content, category]
    extEdits,     \* changes of the service's notes made next to the updateNote calls
    pc,           \* per editor: "idle", "put", "get", "done"
    noteId,       \* per editor: argument noteId
    callerEtag,   \* per editor: the etag passed to updateNote
    etag,         \* per editor: argument etag of the running updateNoteWithRetry
    data,         \* per editor: { title, content, category }
    retryCount,   \* per editor: argument retryCount
    fmt,          \* per editor: position of the loop in etagFormats
    lastError,    \* per editor: lastError
    error,        \* per editor: the error caught at notes.ts:72 while refetching
    result,       \* per editor: how the promise of updateNote settled
    sent,         \* per editor: the requests issued so far, with their answers
    calledAt,     \* per editor: the editors whose call was running when it called
    lastId        \* the highest note id the service has assigned

notesVars == <<quoting, notes, extEdits, pc, noteId, callerEtag, etag, data,
               retryCount, fmt, lastError, error, result, sent, calledAt, lastId>>

VARIABLES
    up,           \* whether the server process is running
    environment,  \* process.env: the NEXTCLOUD_* variables of the process
    credentials,  \* the credentials held by the client manager
    analytics,    \* const analytics
    file,         \* the snapshot file ANALYTICS_FILE
    now,          \* the clock
    inflight,     \* /mcp handlers awaiting transport.handleRequest
    response,     \* the body of the last answer of GET /analytics
    runs,         \* processes started so far
    processStart, \* the time at which the running process started
    loaded,       \* the analytics with which the running process started
    calls,        \* trackRequest invocations of this process, by endpoint
    carried,      \* tool invocations carried by the /mcp requests of this process
    history,      \* the trackToolCall invocations behind the ring, latest first
    settled       \* how the last /mcp handling ended: "none", "ok", "failed", "threw"

trackerVars == <<up, environment, credentials, analytics, file, now, inflight,
                 response, runs, processStart, loaded, calls, carried, history,
                 settled>>

vars == <<notesVars, trackerVars>>

callVars == <<pc, noteId, callerEtag, etag, data, retryCount, fmt, lastError,
              error, result, sent, calledAt>>

\* ------------------------------------------------------ the remote service
\* The ids a caller may name: those the service has assigned so far.
AssignedIds == 1..lastId

\* The service holds no note of that id: it answers 404.
NotFound == 404
NoTag == <<>>

NoteEtag(id) == IF id \in DOMAIN notes THEN Tok(notes[id].ver) ELSE NoTag

NoteOf(id, n) ==
    [id |-> id, etag |-> Tok(n.ver), title |-> n.title, content |-> n.content,
     category |-> n.category]

\* The tag check of the service on a PUT.
ServiceAccepts(ifMatch, tag) ==
    CASE quoting = "raw" -> ifMatch = tag
      [] quoting = "quoted" -> ifMatch = Quoted(tag)
      [] OTHER -> ifMatch = tag \/ ifMatch = Quoted(tag)

\* The note after an accepted PUT: given fields replaced, a new tag assigned.
ApplyUpdate(n, d) ==
    [ver |-> n.ver + 1,
     title |-> IF d.title = Undefined THEN n.title ELSE d.title,
     content |-> IF d.content = Undefined THEN n.content ELSE d.content,
     category |-> IF d.category = Undefined THEN n.category ELSE d.category]

\* A request without a body: getNote gives makeRequest a method and a url
\* only (notes.ts:13-16).
NoBodySent == [absent |-> TRUE]

Init ==
    /\ quoting \in {"raw", "quoted", "either"}
    /\ notes = [id \in NoteIds |-> [ver |-> 0, title |-> "A", content |-> "x", category |-> "c"]]
    /\ extEdits = 0
    /\ pc = [c \in Editors |-> "idle"]
    /\ noteId = [c \in Editors |-> 0]
    /\ callerEtag = [c \in Editors |-> <<>>]
    /\ etag = [c \in Editors |-> <<>>]
    /\ data = [c \in Editors |-> NoData]
    /\ retryCount = [c \in Editors |-> 0]
    /\ fmt = [c \in Editors |-> 1]
    /\ lastError = [c \in Editors |-> NoError]
    /\ error = [c \in Editors |-> NoError]
    /\ result = [c \in Editors |-> [ok |-> FALSE, note |-> NoNote, error |-> NoError]]
    /\ sent = [c \in Editors |-> <<>>]
    /\ calledAt = [c \in Editors |-> {}]
    /\ lastId = Cardinality(NoteIds)
    /\ up = TRUE
    /\ environment = NoCredentials
    /\ credentials = NoCredentials
    /\ analytics = DefaultAnalytics(0)
    /\ file = NoFile
    /\ now = 0
    /\ inflight = 0
    /\ response = NoResponse
    /\ runs = 1
    /\ processStart = 0
    /\ loaded = DefaultAnalytics(0)
    /\ calls = [e \in Endpoints |-> 0]
    /\ carried = 0
    /\ history = <<>>
    /\ settled = "none"

\* A client outside this program changes the note (the service assigns a new tag).
ExternalEdit(id) ==
    /\ id \in DOMAIN notes
    /\ extEdits < MaxExternalEdits
    /\ extEdits' = extEdits + 1
    /\ notes' = [notes EXCEPT ![id] = ApplyUpdate(@, [title |-> Undefined, content |-> "e", category |-> Undefined])]
    /\ UNCHANGED <<quoting, lastId>>
    /\ UNCHANGED callVars

\* The notes of the service after it stored a new note with the fields d
\* under the next id.
Stored(d) ==
    [n \in DOMAIN notes \cup {lastId + 1} |->
        IF n = lastId + 1
        THEN [ver |-> 0, title |-> d.title, content |-> d.content, category |-> d.category]
        ELSE notes[n]]

\* The notes of the service after it dropped the note id.
Dropped(id) == [n \in DOMAIN notes \ {id} |-> notes[n]]

\* createNote(title, content, category) (notes.ts:19-29): one POST with the
\* three fields; the service stores the note under the next id and the
\* promise resolves with it. When the request fails the promise is rejected
\* and nothing has changed.
CreateNote(d, fault) ==
    /\ extEdits < MaxExternalEdits
    /\ IF fault = 200
       THEN /\ notes' = Stored(d)
            /\ lastId' = lastId + 1
            /\ extEdits' = extEdits + 1
       ELSE UNCHANGED <<notes, lastId, extEdits>>
    /\ UNCHANGED quoting
    /\ UNCHANGED callVars

\* deleteNote(noteId) (notes.ts:88-93): one DELETE; the service drops the
\* note and the promise resolves. When the service holds no note of that id
\* (404) or the request fails otherwise, the promise is rejected and nothing
\* has changed.
DeleteNote(id, fault) ==
    LET answer == IF fault = 200 /\ id \notin DOMAIN notes THEN NotFound ELSE fault
    IN  /\ extEdits < MaxExternalEdits
        /\ IF answer = 200
           THEN /\ notes' = Dropped(id)
                /\ extEdits' = extEdits + 1
           ELSE UNCHANGED <<notes, extEdits>>
        /\ UNCHANGED <<quoting, lastId>>
        /\ UNCHANGED callVars

\* updateNote(noteId, etag, title, content, category): enters
\* updateNoteWithRetry with retryCount = 0 and stops at the first PUT.
UpdateNote(c, id, tag, d) ==
    /\ pc[c] = "idle"
    /\ \A b \in Editors : b < c => pc[b] # "idle"
    /\ pc' = [pc EXCEPT ![c] = "put"]
    /\ noteId' = [noteId EXCEPT ![c] = id]
    /\ callerEtag' = [callerEtag EXCEPT ![c] = tag]
    /\ etag' = [etag EXCEPT ![c] = tag]
    /\ data' = [data EXCEPT ![c] = d]
    /\ retryCount' = [retryCount EXCEPT ![c] = 0]
    /\ fmt' = [fmt EXCEPT ![c] = 1]
    /\ lastError' = [lastError EXCEPT ![c] = NoError]
    /\ calledAt' = [calledAt EXCEPT ![c] = {b \in Editors : pc[b] \in {"put", "get"}}]
    /\ UNCHANGED <<quoting, notes, extEdits, error, result, sent, lastId>>

\* The record of one request in `sent`: the method, the note of the url, the
\* If-Match header (<<>> when there is none) and the body (NoBodySent when there
\* is none), with the answer and the note's tag at that moment.
Request(method, c, ifMatch, payload, status) ==
    [method |-> method, id |-> noteId[c], ifMatch |-> ifMatch, data |-> payload,
     status |-> status, cur |-> NoteEtag(noteId[c]), rc |-> retryCount[c]]

Succeed(c, note) ==
    /\ pc' = [pc EXCEPT ![c] = "done"]
    /\ result' = [result EXCEPT ![c] = [ok |-> TRUE, note |-> note, error |-> NoError]]

Fail(c, e) ==
    /\ pc' = [pc EXCEPT ![c] = "done"]
    /\ result' = [result EXCEPT ![c] = [ok |-> FALSE, note |-> NoNote, error |-> e]]

\* Faulty variant: the fields the caller left out are filled in from the
\* refetched note.
RetryDataMergesFresh(freshNote, callerData) ==
    [title |-> IF callerData.title = Undefined THEN freshNote.title ELSE callerData.title,
     content |-> IF callerData.content = Undefined THEN freshNote.content ELSE callerData.content,
     category |-> IF callerData.category = Undefined THEN freshNote.category ELSE callerData.category]

\* The title, content and category passed to the recursive call (notes.ts:78).
RetryData(freshNote, callerData) == callerData

\* Faulty variant: the retry budget is a field of the client, shared by its
\* calls.
RetryCountShared(c) == IF \E b \in Editors : retryCount[b] = 1 THEN 1 ELSE 0

\* retryCount (notes.ts:47, 75): a parameter of the running call.
RetryCount(c) == retryCount[c]

\* The catch block of updateNoteWithRetry (notes.ts:72-85) entered with e
\* thrown by the try block: refetch on a 412 of the first attempt, else rethrow.
\* The recursive call of line 78 is returned without await, so whatever it
\* throws settles the promise of updateNote directly.
Catch(c, e) ==
    IF ShouldRefetch(e, RetryCount(c))
    THEN /\ pc' = [pc EXCEPT ![c] = "get"]
         /\ error' = [error EXCEPT ![c] = e]
         /\ UNCHANGED result
    ELSE /\ Fail(c, e)
         /\ UNCHANGED error

\* The catch of the encoding loop (notes.ts:62-68) and the end of the loop
\* (notes.ts:69-71) after a PUT was rejected with e.
PutRejected(c, e) ==
    /\ lastError' = [lastError EXCEPT ![c] = e]
    /\ IF ~TryNextFormat(e)
       THEN /\ Catch(c, e)
            /\ UNCHANGED fmt
       ELSE IF fmt[c] < Len(EtagFormats(etag[c]))
            THEN /\ fmt' = [fmt EXCEPT ![c] = @ + 1]
                 /\ UNCHANGED <<pc, error, result>>
            ELSE /\ Catch(c, e)
                 /\ UNCHANGED fmt

\* One PUT of the loop over etagFormats and the code that runs on its answer.
\* fault = 200 stands for a request that reaches the service.
Put(c, fault) ==
    /\ pc[c] = "put"
    /\ LET ifMatch == EtagFormats(etag[c])[fmt[c]]
           id == noteId[c]
           answer == IF fault = 200 /\ id \notin DOMAIN notes THEN NotFound ELSE fault
       IN  IF answer # 200
           THEN /\ sent' = [sent EXCEPT ![c] = Append(@, Request("PUT", c, ifMatch, data[c], answer))]
                /\ PutRejected(c, MakeError(answer, retryCount[c], fmt[c]))
                /\ UNCHANGED notes
           ELSE IF ServiceAccepts(ifMatch, NoteEtag(id))
           THEN /\ notes' = [notes EXCEPT ![id] = ApplyUpdate(@, data[c])]
                /\ sent' = [sent EXCEPT ![c] = Append(@, Request("PUT", c, ifMatch, data[c], 200))]
                /\ Succeed(c, NoteOf(id, ApplyUpdate(notes[id], data[c])))
                /\ UNCHANGED <<fmt, lastError, error>>
           ELSE /\ sent' = [sent EXCEPT ![c] = Append(@, Request("PUT", c, ifMatch, data[c], PreconditionFailed))]
                /\ PutRejected(c, MakeError(PreconditionFailed, retryCount[c], fmt[c]))
                /\ UNCHANGED notes
    /\ UNCHANGED <<quoting, extEdits, noteId, callerEtag, etag, data, retryCount, calledAt,
                   lastId>>

\* The refetch of notes.ts:77 and the code that runs on its answer: the
\* recursive call with freshNote.etag and retryCount 1, or the catch of
\* line 79 that throws the original error.
Get(c, fault) ==
    /\ pc[c] = "get"
    /\ LET answer == IF fault = 200 /\ noteId[c] \notin DOMAIN notes THEN NotFound ELSE fault
       IN
       IF answer # 200
       THEN /\ sent' = [sent EXCEPT ![c] = Append(@, Request("GET", c, <<>>, NoBodySent, answer))]
            /\ Fail(c, RefreshFailure(error[c], MakeError(answer, retryCount[c], 0)))
            /\ UNCHANGED <<etag, data, retryCount, fmt, lastError>>
       ELSE /\ sent' = [sent EXCEPT ![c] = Append(@, Request("GET", c, <<>>, NoBodySent, 200))]
            /\ etag' = [etag EXCEPT ![c] = RetryEtag(NoteOf(noteId[c], notes[noteId[c]]), etag[c])]
            /\ data' = [data EXCEPT ![c] = RetryData(NoteOf(noteId[c], notes[noteId[c]]), @)]
            /\ retryCount' = [retryCount EXCEPT ![c] = 1]
            /\ fmt' = [fmt EXCEPT ![c] = 1]
            /\ lastError' = [lastError EXCEPT ![c] = NoError]
            /\ pc' = [pc EXCEPT ![c] = "put"]
            /\ UNCHANGED result
    /\ UNCHANGED <<quoting, notes, extEdits, noteId, callerEtag, error, calledAt,
                   lastId>>

\* One updateNote call against a service whose notes are also edited by
\* clients outside this program, created by createNote and deleted by
\* deleteNote, at any point of the call.

\* ------------------------------------------------- the tracker's handlers
\* app.get('/health'), app.get('/analytics/dashboard'), app.get('/'): the
\* request is tracked and a fixed document answered.
HandlePage(endpoint, req) ==
    /\ up
    /\ analytics' = TrackRequest(analytics, req, endpoint, now)
    /\ calls' = [calls EXCEPT ![endpoint] = @ + 1]
    /\ response' = NoResponse
    /\ UNCHANGED <<up, environment, credentials, file, now, inflight, runs,
                   processStart, loaded, carried, history, settled>>
    /\ UNCHANGED notesVars

\* app.get('/analytics') (http-server.ts:239-278)
HandleAnalytics(req) ==
    /\ up
    /\ analytics' = TrackRequest(analytics, req, "/analytics", now)
    /\ calls' = [calls EXCEPT !["/analytics"] = @ + 1]
    /\ response' \in Summaries(analytics', now)
    /\ UNCHANGED <<up, environment, credentials, file, now, inflight, runs,
                   processStart, loaded, carried, history, settled>>
    /\ UNCHANGED notesVars

\* app.all('/mcp') up to its await (http-server.ts:566-579). When
\* trackToolCall throws, the handler ends there: the request and the total of
\* tool calls have been counted, the transport is never called and the
\* handler itself sends no answer.
HandleMcp(req) ==
    /\ up
    /\ LET tracked == TrackRequest(analytics, req, "/mcp", now)
           entry == [tool |-> req.body.msgs[1].name, timestamp |-> IsoString(now),
                     clientIp |-> ClientIp(req)]
       IN  IF IsToolCall(req.body) /\ ~req.body.msgs[1].convertible
           THEN /\ analytics' = TrackToolCallThrowing(tracked)
                /\ history' = history
                /\ inflight' = inflight
                /\ settled' = "threw"
           ELSE IF IsToolCall(req.body)
           THEN /\ analytics' = TrackToolCall(tracked, req.body.msgs[1].name, ClientIp(req), now)
                /\ history' = <<entry>> \o history
                /\ inflight' = inflight + 1
                /\ settled' = settled
           ELSE /\ analytics' = tracked
                /\ history' = history
                /\ inflight' = inflight + 1
                /\ settled' = settled
    /\ credentials' = InitializeCredentials(credentials, req.query, environment)
    /\ calls' = [calls EXCEPT !["/mcp"] = @ + 1]
    /\ carried' = carried + Cardinality(Invocations(req.body))
    /\ response' = NoResponse
    /\ UNCHANGED <<up, environment, file, now, runs, processStart, loaded>>
    /\ UNCHANGED notesVars

\* transport.handleRequest settles: it resolves, or it rejects and the
\* handler answers 500 (http-server.ts:578-592).
SettleMcp(ok) ==
    /\ up
    /\ inflight > 0
    /\ inflight' = inflight - 1
    /\ settled' = IF ok THEN "ok" ELSE "failed"
    /\ UNCHANGED <<up, environment, credentials, analytics, file, now, response,
                   runs, processStart, loaded, calls, carried, history>>
    /\ UNCHANGED notesVars

\* setInterval(saveAnalytics, 5 * 60 * 1000) fires (http-server.ts:97).
PeriodicSave(outcome, k) ==
    /\ up
    /\ file' = SavedFile(file, analytics, outcome, k)
    /\ analytics' = IF outcome = "ok" THEN analytics ELSE AfterFailedSave(analytics, now)
    /\ UNCHANGED <<up, environment, credentials, now, inflight, response, runs,
                   processStart, loaded, calls, carried, history, settled>>
    /\ UNCHANGED notesVars

\* process.on('SIGTERM' / 'SIGINT'): saveAnalytics(); process.exit(0)
\* (http-server.ts:100-110)
Shutdown(outcome, k) ==
    /\ up
    /\ file' = SavedFile(file, analytics, outcome, k)
    /\ analytics' = IF outcome = "ok" THEN analytics ELSE AfterFailedSave(analytics, now)
    /\ up' = FALSE
    /\ inflight' = 0
    /\ UNCHANGED <<environment, credentials, now, response, runs, processStart,
                   loaded, calls, carried, history, settled>>
    /\ UNCHANGED notesVars

\* The process is started again: the module is evaluated, loadAnalytics()
\* runs (http-server.ts:112).
Start(env, readable) ==
    /\ ~up
    /\ up' = TRUE
    /\ environment' = env
    /\ credentials' = NoCredentials
    /\ analytics' = LoadAnalytics(file, readable, now)
    /\ loaded' = analytics'
    /\ processStart' = now
    /\ runs' = runs + 1
    /\ inflight' = 0
    /\ response' = NoResponse
    /\ calls' = [e \in Endpoints |-> 0]
    /\ carried' = 0
    /\ history' = analytics'.recentToolCalls
    /\ settled' = "none"
    /\ UNCHANGED <<file, now>>
    /\ UNCHANGED notesVars

\* Time passes.
Tick ==
    /\ now' = now + 1
    /\ UNCHANGED <<up, environment, credentials, analytics, file, inflight,
                   response, runs, processStart, loaded, calls, carried, history,
                   settled>>
    /\ UNCHANGED notesVars

\* --------------------------------------------------------------- inputs
Ip(n) == "10.0.0." \o ToString(n)
NoQuery == NoCredentials
Req(method, xff, ip, ua, query, body) ==
    [method |-> method, xff |-> xff, ip |-> ip, ua |-> ua, query |-> query,
     body |-> body]

HelloTool == "nextcloud_hello"
UpdateTool == "nextcloud_notes_update_note"

\* Requests without a body: a browser behind no proxy, and a client whose
\* proxy passes on the X-Forwarded-For list "7, 10.0.0.2".
PageRequests ==
    {Req("GET", NoHeader, Ip(1), UserAgent("c/8"), NoQuery, NoBody),
     Req("GET", <<"7", Ip(2)>>, Ip(1), NoHeader, NoQuery, NoBody)}

QueryCredentials == [host |-> "h", username |-> "u", password |-> "p"]
EnvCredentials == [host |-> "H", username |-> "U", password |-> "P"]

\* Requests to /mcp: a tool call, a call of another method, a tool call
\* without a name, a batch of two tool calls, and a GET.
McpRequests ==
    {Req("POST", NoHeader, Ip(1), UserAgent("c/8"), QueryCredentials,
         Single(Msg("tools/call", HelloTool))),
     Req("POST", <<EmptyString>>, EmptyString, UserAgent("/x"), NoQuery,
         Single(Msg("tools/list", EmptyString))),
     Req("POST", NoHeader, Ip(2), NoHeader, [NoQuery EXCEPT !.host = "h"],
         Single(Msg("tools/call", EmptyString))),
     Req("POST", NoHeader, Ip(1), NoHeader, NoQuery,
         Batch(<<Msg("tools/call", HelloTool), Msg("tools/call", UpdateTool)>>)),
     Req("GET", NoHeader, Ip(1), NoHeader, NoQuery, NoBody)}

PersistPage == Req("GET", NoHeader, Ip(1), UserAgent("c/8"), NoQuery, NoBody)
\* A tools/call whose params.name is an object that cannot be converted to a
\* string.
ObjectNameCall ==
    Req("POST", NoHeader, Ip(1), UserAgent("c/8"), NoQuery,
        Single(ObjectNameMsg("tools/call")))

PersistCall ==
    Req("POST", NoHeader, Ip(1), UserAgent("c/8"), NoQuery,
        Single(Msg("tools/call", HelloTool)))

\* A request through a proxy that passes on the X-Forwarded-For text
\* "constructor".
InheritedNameRequest ==
    Req("GET", <<"constructor">>, Ip(1), UserAgent("c/8"), NoQuery, NoBody)

\* The NEXTCLOUD_* variables a process may be started with: none, all three,
\* or all but the host.
Environments == {NoCredentials, EnvCredentials, [EnvCredentials EXCEPT !.host = ""]}

\* The bounds of the tracker's specification: requests tracked in the
\* analytics, processes started, ticks of the clock.
MaxTracked == 2
MaxRuns == 2
MaxClock == 2

\* The n-th tool call of a long run: the tools and the clients take turns.
RingCall(n) ==
    Req("POST", NoHeader, Ip(n % 3), UserAgent("c/8"), NoQuery,
        Single(Msg("tools/call", IF n % 2 = 0 THEN HelloTool ELSE UpdateTool)))

\* The tool calls of a long run.
MaxRingCalls == 102

\* A long run of requests: the first NumSummaryClients come from as many
\* clients, the last FreeSteps from a client seen before, from a new one, or
\* through a proxy that passes on the X-Forwarded-For text "7".
MaxSummaryRequests == 36
NumSummaryClients == 22
FreeSteps == 3

SummaryClients(n) ==
    IF n < NumSummaryClients THEN {Ip(n + 1)}
    ELSE IF n < MaxSummaryRequests - FreeSteps THEN {Ip(NumSummaryClients)}
    ELSE {Ip(NumSummaryClients), Ip(0), "7"}

SummaryRequest(ip) == Req("GET", <<ip>>, Ip(1), UserAgent("c/8"), NoQuery, NoBody)

\* The hour in which the n-th request of the long run arrives: every fourth
\* request shares its hour with the one before.
SummaryHour(n) == n - (n \div 4)

\* ---------------------------------------------------------- specifications
Next ==
    \/ \E id \in AssignedIds : ExternalEdit(id) /\ UNCHANGED trackerVars
    \/ \E d \in NewNotes, fault \in FaultStatuses \cup {200} :
          CreateNote(d, fault) /\ UNCHANGED trackerVars
    \/ \E id \in AssignedIds, fault \in FaultStatuses \cup {200} :
          DeleteNote(id, fault) /\ UNCHANGED trackerVars
    \/ \E id \in AssignedIds, tag \in CallerTags, d \in Deltas :
          UpdateNote(1, id, tag, d) /\ UNCHANGED trackerVars
    \/ \E fault \in FaultStatuses \cup {200} : Put(1, fault) /\ UNCHANGED trackerVars
    \/ \E fault \in FaultStatuses \cup {200} : Get(1, fault) /\ UNCHANGED trackerVars

Spec == Init /\ [][Next]_vars

\* Every outbound HTTP call returns: a PUT or GET that is awaited is
\* eventually answered, with success or with an error.
HttpCallsReturn ==
    /\ WF_vars(\E fault \in FaultStatuses \cup {200} : Put(1, fault) /\ UNCHANGED trackerVars)
    /\ WF_vars(\E fault \in FaultStatuses \cup {200} : Get(1, fault) /\ UNCHANGED trackerVars)

SpecLive == Spec /\ HttpCallsReturn

\* The updateNote calls of two editors, interleaved request by request, on a
\* note that nobody else changes.
NextRace ==
    \/ \E c \in Editors, id \in NoteIds, tag \in CallerTags, d \in Deltas :
          UpdateNote(c, id, tag, d) /\ UNCHANGED trackerVars
    \/ \E c \in Editors, fault \in FaultStatuses \cup {200} : Put(c, fault) /\ UNCHANGED trackerVars
    \/ \E c \in Editors, fault \in FaultStatuses \cup {200} : Get(c, fault) /\ UNCHANGED trackerVars

SpecRace == Init /\ [][NextRace]_vars

\* The server just started, the notes client idle.
InitServer == Init /\ quoting = "raw"

\* The server under requests: every route, requests in flight, the clock.
NextTracker ==
    \/ \E e \in Pages, req \in PageRequests :
          analytics.totalRequests < MaxTracked /\ HandlePage(e, req)
    \/ \E req \in PageRequests :
          analytics.totalRequests < MaxTracked /\ HandleAnalytics(req)
    \/ \E req \in McpRequests :
          analytics.totalRequests < MaxTracked /\ HandleMcp(req)
    \/ \E ok \in BOOLEAN : SettleMcp(ok)
    \/ now < MaxClock /\ Tick

SpecTracker == InitServer /\ [][NextTracker]_vars

\* The server over its life: a request or a tool call now and then, periodic
\* saves, signals, restarts.
NextPersist ==
    \/ \E req \in {PersistPage} :
          analytics.totalRequests < MaxTracked /\ HandleAnalytics(req)
    \/ \E req \in {PersistCall} :
          analytics.totalRequests < MaxTracked /\ HandleMcp(req)
    \/ \E outcome \in WriteOutcomes, k \in TruncatedLengths : PeriodicSave(outcome, k)
    \/ \E outcome \in WriteOutcomes, k \in TruncatedLengths : Shutdown(outcome, k)
    \/ \E env \in {NoCredentials, EnvCredentials}, readable \in BOOLEAN :
          runs < MaxRuns /\ Start(env, readable)
    \/ now < MaxClock /\ Tick

SpecPersist == InitServer /\ [][NextPersist]_vars

\* The same life, with a tool call among the requests whose name cannot be
\* converted to a string.
NextObjectName ==
    \/ NextPersist
    \/ \E req \in {ObjectNameCall} :
          analytics.totalRequests < MaxTracked /\ HandleMcp(req)

SpecObjectName == InitServer /\ [][NextObjectName]_vars

\* A long run of tool calls, one per tick, each handled before the next
\* arrives; once the ring is nearly full the server may be restarted.
NextRing ==
    \/ /\ inflight = 0
       /\ processStart + calls["/mcp"] = now
       /\ analytics.totalToolCalls < MaxRingCalls
       /\ HandleMcp(RingCall(analytics.totalToolCalls))
    \/ SettleMcp(TRUE)
    \/ /\ up /\ inflight = 0
       /\ processStart + calls["/mcp"] > now
       /\ Tick
    \/ /\ inflight = 0
       /\ runs < MaxRuns
       /\ Len(analytics.recentToolCalls) >= RecentToolCallsCap - 1
       /\ Shutdown("ok", 0)
    \/ Start(NoCredentials, TRUE)

\* The server under /mcp requests with and without credentials in the query,
\* restarted with different environments.
NextCredentials ==
    \/ \E req \in McpRequests :
          analytics.totalRequests < MaxTracked /\ HandleMcp(req)
    \/ Shutdown("ok", 0)
    \/ \E env \in Environments : runs < MaxRuns /\ Start(env, TRUE)

SpecCredentials == InitServer /\ [][NextCredentials]_vars

\* The server under requests and tool calls, from the zero state.
NextTotals ==
    \/ \E e \in Pages, req \in PageRequests \cup {InheritedNameRequest} :
          analytics.totalRequests < MaxTracked /\ HandlePage(e, req)
    \/ \E req \in McpRequests :
          analytics.totalRequests < MaxTracked /\ HandleMcp(req)
    \/ \E ok \in BOOLEAN : SettleMcp(ok)

SpecTotals == InitServer /\ [][NextTotals]_vars

SpecRing == InitServer /\ [][NextRing]_vars

\* A long run of requests over more than a day, the summary asked for at
\* its end.
NextSummary ==
    \/ \E ip \in SummaryClients(analytics.totalRequests) :
          /\ analytics.totalRequests < MaxSummaryRequests
          /\ now = TicksPerHour * SummaryHour(analytics.totalRequests)
          /\ HandlePage("/health", SummaryRequest(ip))
    \/ \E ip \in SummaryClients(analytics.totalRequests) :
          /\ analytics.totalRequests < MaxSummaryRequests
          /\ analytics.totalRequests >= MaxSummaryRequests - FreeSteps
          /\ now = TicksPerHour * SummaryHour(analytics.totalRequests)
          /\ HandleAnalytics(SummaryRequest(ip))
    \/ /\ now < TicksPerHour * SummaryHour(analytics.totalRequests)
       /\ Tick

SpecSummary == InitServer /\ [][NextSummary]_vars

\* ------------------------------------------------------------------ claims
Done(c) == pc[c] = "done"
IsPut(r) == r.method = "PUT"
IsGet(r) == r.method = "GET"
Faulted(r) == r.status \in FaultStatuses
Rejected412(r) == r.status = PreconditionFailed
Accepted(r) == r.status = 200
NumPuts(c) == Len(SelectSeq(sent[c], IsPut))
NumGets(c) == Len(SelectSeq(sent[c], IsGet))

\* The three encodings of a tag, by position in a logical attempt.
Encoding(tag, k) ==
    CASE k = 1 -> tag
      [] k = 2 -> <<Q>> \o tag \o <<Q>>
      [] OTHER -> SelectSeq(tag, LAMBDA ch : ch # Q)

\* The first logical attempt of c was rejected with 412 on all three encodings.
InitialAttemptExhausted(c) ==
    /\ Len(sent[c]) >= 3
    /\ \A i \in 1..3 : IsPut(sent[c][i]) /\ Rejected412(sent[c][i]) /\ sent[c][i].rc = 0

\* C1 (as stated): a note is written only by a call whose caller-supplied
\* tag denoted the note's current tag at the time of the write, so a call
\* carrying a stale tag never overwrites another editor's change.
C1_StaleTagNeverWrites ==
    \A c \in Editors : \A i \in DOMAIN sent[c] :
        (IsPut(sent[c][i]) /\ Accepted(sent[c][i]))
            => StripQuotes(callerEtag[c]) = sent[c][i].cur

\* C1 (amended): a note is written only by a PUT whose If-Match denotes the
\* note's current tag at the time of the write; that If-Match is an encoding
\* of the caller's tag in the initial attempt, and in the recovery attempt an
\* encoding of the tag the call itself refetched after all three encodings of
\* the caller's tag had been rejected with 412.
C1_WritesCarryCallerOrRefetchedTag ==
    \A c \in Editors : \A i \in DOMAIN sent[c] :
        LET r == sent[c][i] IN
        (IsPut(r) /\ Accepted(r)) =>
            /\ StripQuotes(r.ifMatch) = r.cur
            /\ r.rc = 0 => /\ i <= 3
                           /\ r.ifMatch = Encoding(callerEtag[c], i)
            /\ r.rc = 1 => /\ InitialAttemptExhausted(c)
                           /\ i \in 5..7
                           /\ IsGet(sent[c][4]) /\ Accepted(sent[c][4])
                           /\ r.ifMatch = Encoding(sent[c][4].cur, i - 4)

\* C1 witness: a call whose tag was stale has overwritten the note in its
\* recovery attempt.
C1_Witness ==
    \E c \in Editors : \E i \in DOMAIN sent[c] :
        /\ IsPut(sent[c][i]) /\ Accepted(sent[c][i]) /\ sent[c][i].rc = 1
        /\ StripQuotes(callerEtag[c]) # sent[c][i].cur

\* Two calls with the same tag race on one note and no one else touches it:
\* w's update is the one the service accepted first (it replaced the first
\* revision), l was running meanwhile.
Race(w, l) ==
    /\ w # l
    /\ Done(w) /\ Done(l)
    /\ noteId[w] = noteId[l]
    /\ callerEtag[w] = callerEtag[l]
    /\ extEdits = 0
    /\ w \in calledAt[l] \/ l \in calledAt[w]
    /\ result[w].ok
    /\ sent[w][Len(sent[w])].cur = Tok(0)

NoFault(c) == \A i \in DOMAIN sent[c] : ~Faulted(sent[c][i])

\* The refetch of call l came after the first update of the note.
RefetchedAfterUpdate(l) ==
    Len(sent[l]) >= 4 /\ IsGet(sent[l][4]) /\ sent[l][4].cur # Tok(0)

\* C2 (as stated): the loser of the race returns a precondition-failed error.
C2_LoserGetsPreconditionFailed ==
    \A w, l \in Editors :
        (Race(w, l) /\ NoFault(w) /\ NoFault(l))
            => (~result[l].ok /\ Is412(result[l].error))

\* C2 (amended): every encoding of the loser's tag is rejected with 412 in
\* its initial attempt and it refetches. When none of its requests fails
\* otherwise: if the refetch came after the winner's update, the recovery
\* attempt is accepted and the loser returns success over the winner's
\* revision; if it came before, which happens only when the winner too was
\* accepted in its recovery attempt, every PUT of the recovery attempt is
\* rejected and the loser returns a precondition failure. A loser that
\* returns a precondition failure either refetched before the winner's update
\* or failed to refetch.
C2_LoserRecoversAndSucceeds ==
    \A w, l \in Editors :
        Race(w, l) =>
            /\ NoFault(l) =>
                  /\ InitialAttemptExhausted(l)
                  /\ NumGets(l) = 1 /\ IsGet(sent[l][4])
                  /\ IF RefetchedAfterUpdate(l)
                     THEN /\ result[l].ok
                          /\ sent[l][Len(sent[l])].rc = 1
                          /\ sent[l][Len(sent[l])].cur = Tok(1)
                          /\ notes[noteId[l]].ver = 2
                     ELSE /\ ~result[l].ok /\ Is412(result[l].error)
                          /\ NumPuts(l) = 6
                          /\ sent[w][Len(sent[w])].rc = 1
                          /\ notes[noteId[l]].ver = 1
            /\ (~result[l].ok /\ Is412(result[l].error))
                   => \/ /\ IsGet(sent[l][Len(sent[l])])
                         /\ Faulted(sent[l][Len(sent[l])])
                      \/ /\ Len(sent[l]) = 7
                         /\ Accepted(sent[l][4])
                         /\ ~RefetchedAfterUpdate(l)

\* C2 witness: the loser of a race has returned success.
C2_Witness ==
    \E w, l \in Editors : Race(w, l) /\ result[l].ok /\ notes[noteId[l]].ver = 2

\* Both calls exhausted the caller's tag, both refetched the first revision,
\* and the loser's recovery attempt was rejected.
C2_BothRecover ==
    \E w, l \in Editors :
        Race(w, l) /\ NoFault(w) /\ NoFault(l) /\ ~result[l].ok /\ NumPuts(l) = 6

\* C3: a call makes at most 2 logical attempts of at most 3 PUTs each, so at
\* most 6 PUTs, and at most 1 GET.
C3_AtMostSixPutsOneGet ==
    \A c \in Editors :
        /\ NumPuts(c) <= 6
        /\ NumGets(c) <= 1
        /\ \A i \in DOMAIN sent[c] : sent[c][i].rc \in {0, 1}
        /\ \A a \in {0, 1} :
               Len(SelectSeq(sent[c], LAMBDA r : IsPut(r) /\ r.rc = a)) <= 3

\* C3 witness: a call that has issued 6 PUTs and 1 GET.
C3_Witness ==
    \E c \in Editors : Done(c) /\ NumPuts(c) = 6 /\ NumGets(c) = 1

\* C4: after the initial attempt is exhausted with 412 the call refetches
\* exactly once; after a successful refetch it makes exactly one further
\* attempt with the encodings of the refetched tag; when that attempt is
\* exhausted with 412 too there is no second refetch and the call fails with
\* a precondition failure.
C4_OneRefetchOneRetry ==
    \A c \in Editors :
        InitialAttemptExhausted(c) =>
            /\ pc[c] # "get"
                   => /\ Len(sent[c]) >= 4
                      /\ IsGet(sent[c][4])
            /\ NumGets(c) <= 1
            /\ (Len(sent[c]) >= 4 /\ Accepted(sent[c][4])) =>
                   /\ Len(sent[c]) <= 7
                   /\ Done(c) => Len(sent[c]) >= 5
                   /\ \A i \in 5..Len(sent[c]) :
                          /\ IsPut(sent[c][i])
                          /\ sent[c][i].rc = 1
                          /\ sent[c][i].ifMatch = Encoding(sent[c][4].cur, i - 4)
                   /\ (Len(sent[c]) = 7 /\ Rejected412(sent[c][7]))
                          => /\ Done(c)
                             /\ ~result[c].ok
                             /\ Is412(result[c].error)

\* C4 witness: both attempts of a call were exhausted with 412 around one refetch.
C4_Witness ==
    \E c \in Editors :
        /\ InitialAttemptExhausted(c)
        /\ Len(sent[c]) = 7
        /\ Rejected412(sent[c][7])
        /\ sent[c][4].cur # StripQuotes(callerEtag[c])

\* The Error object that makeRequest threw for the i-th request of c.
ErrorOf(c, i) ==
    LET r == sent[c][i] IN
    [status |-> r.status, message |-> ErrorMessage(r.status), rc |-> r.rc,
     enc |-> IF IsGet(r) THEN 0 ELSE IF r.rc = 0 THEN i ELSE i - 4]

\* Both logical attempts of c were exhausted with 412.
BothAttemptsExhausted(c) ==
    /\ InitialAttemptExhausted(c)
    /\ Len(sent[c]) = 7
    /\ \A i \in 5..7 : IsPut(sent[c][i]) /\ Rejected412(sent[c][i])

\* C5: when the recovery attempt is exhausted with 412 as well, the call
\* fails with the original error of the initial attempt, not with the error
\* of the recovery attempt.
C5_RecoveryFailureSurfacesOriginalError ==
    \A c \in Editors :
        (Done(c) /\ BothAttemptsExhausted(c))
            => (~result[c].ok /\ result[c].error = ErrorOf(c, 3))

\* C6: when the refetch fails, no further request is issued and the call
\* fails with the original precondition failure of the initial attempt,
\* never with the error of the refetch.
C6_RefetchFailureSurfacesOriginalError ==
    \A c \in Editors : \A i \in DOMAIN sent[c] :
        (IsGet(sent[c][i]) /\ Faulted(sent[c][i])) =>
            /\ i = 4
            /\ Len(sent[c]) = 4
            /\ Done(c)
            /\ ~result[c].ok
            /\ Is412(result[c].error)
            /\ result[c].error = ErrorOf(c, 3)
            /\ result[c].error # ErrorOf(c, 4)

\* C6 witness: a call whose refetch failed has ended.
C6_Witness ==
    \E c \in Editors :
        /\ Done(c)
        /\ Len(sent[c]) = 4
        /\ IsGet(sent[c][4]) /\ Faulted(sent[c][4])

\* C7: a PUT rejected with anything but a precondition failure, in either
\* attempt, is the last request of the call, and the call fails with the
\* error of that PUT.
C7_OtherErrorsEndTheCall ==
    \A c \in Editors : \A i \in DOMAIN sent[c] :
        (IsPut(sent[c][i]) /\ Faulted(sent[c][i])) =>
            /\ i = Len(sent[c])
            /\ Done(c)
            /\ ~result[c].ok
            /\ result[c].error = ErrorOf(c, i)
            /\ ~Is412(result[c].error)

\* C7 witness: a PUT of the recovery attempt failed with another error
\* before the last encoding.
C7_Witness ==
    \E c \in Editors :
        /\ Done(c)
        /\ Len(sent[c]) = 6
        /\ IsPut(sent[c][6]) /\ Faulted(sent[c][6]) /\ sent[c][6].rc = 1

\* C8: in a logical attempt the PUTs carry the raw, the quoted and the
\* stripped tag in this order, each one after a 412 on the previous one; an
\* accepted PUT is the last request and the note it returned is the result.
C8_EncodingOrderAndShortCircuit ==
    \A c \in Editors : \A i \in DOMAIN sent[c] :
        LET r == sent[c][i]
            k == IF r.rc = 0 THEN i ELSE i - 4
            tag == IF r.rc = 0 THEN callerEtag[c] ELSE sent[c][4].cur
        IN  IsPut(r) =>
                /\ k \in 1..3
                /\ r.ifMatch = Encoding(tag, k)
                /\ r.id = noteId[c]
                /\ k > 1 => /\ IsPut(sent[c][i - 1])
                            /\ Rejected412(sent[c][i - 1])
                            /\ sent[c][i - 1].rc = r.rc
                /\ Accepted(r) =>
                       /\ i = Len(sent[c])
                       /\ Done(c)
                       /\ result[c].ok
                       /\ result[c].note.id = r.id
                       /\ result[c].note.etag # r.cur
                       /\ data[c].content # Undefined => result[c].note.content = data[c].content
                       /\ data[c].title # Undefined => result[c].note.title = data[c].title
                       /\ data[c].category # Undefined => result[c].note.category = data[c].category

\* C8 witness: a call was accepted with the third encoding of its tag.
C8_Witness ==
    \E c \in Editors :
        /\ Done(c) /\ result[c].ok
        /\ Len(sent[c]) = 3
        /\ sent[c][3].ifMatch # callerEtag[c]

\* C9: a service that accepts only the quoted tag rejects the first PUT of a
\* call given the current tag unquoted and accepts its second PUT, which
\* carries the quoted tag; the call succeeds without a refetch.
C9_QuotedOnlyServiceSecondPut ==
    \A c \in Editors :
        (/\ quoting = "quoted"
         /\ Len(sent[c]) >= 1
         /\ callerEtag[c] = sent[c][1].cur
         /\ ~Faulted(sent[c][1])) =>
            /\ Rejected412(sent[c][1])
            /\ Len(sent[c]) >= 2 =>
                   /\ IsPut(sent[c][2])
                   /\ sent[c][2].ifMatch = <<Q>> \o callerEtag[c] \o <<Q>>
                   /\ (sent[c][2].cur = callerEtag[c] /\ ~Faulted(sent[c][2])) =>
                          /\ Accepted(sent[c][2])
                          /\ Len(sent[c]) = 2
                          /\ Done(c)
                          /\ result[c].ok
                          /\ NumGets(c) = 0

\* C9 witness: against a quoted-only service a call given the current tag
\* unquoted has succeeded with its second PUT.
C9_Witness ==
    \E c \in Editors :
        /\ quoting = "quoted"
        /\ Done(c) /\ result[c].ok
        /\ Len(sent[c]) = 2
        /\ callerEtag[c] = sent[c][1].cur
        /\ Accepted(sent[c][2])

\* C10 (as stated): a call given the note's current tag succeeds with exactly
\* one PUT and returns a note with another tag, when no request fails in
\* transport and nobody else changes the note.
C10_CurrentTagOnePut ==
    \A c \in Editors :
        (/\ Done(c)
         /\ callerEtag[c] = sent[c][1].cur
         /\ NoFault(c)
         /\ extEdits = 0
         /\ \A b \in Editors \ {c} : sent[b] = <<>>) =>
            /\ Len(sent[c]) = 1
            /\ result[c].ok
            /\ result[c].note.etag # callerEtag[c]

\* C10 (amended): a call whose tag, as given, is what the service accepts for
\* the note's current revision succeeds with exactly one PUT, unless that PUT
\* fails in transport, and returns a note with another tag.
C10_AcceptedFormOnePut ==
    \A c \in Editors :
        (/\ Len(sent[c]) >= 1
         /\ ServiceAccepts(callerEtag[c], sent[c][1].cur)
         /\ ~Faulted(sent[c][1])) =>
            /\ IsPut(sent[c][1])
            /\ Accepted(sent[c][1])
            /\ Len(sent[c]) = 1
            /\ Done(c)
            /\ result[c].ok
            /\ result[c].note.etag # callerEtag[c]
            /\ StripQuotes(result[c].note.etag) # StripQuotes(callerEtag[c])

\* C10 witness: a call given the current tag in the form the service accepts
\* has succeeded with one PUT.
C10_Witness ==
    \E c \in Editors :
        /\ Done(c) /\ result[c].ok
        /\ Len(sent[c]) = 1
        /\ ServiceAccepts(callerEtag[c], sent[c][1].cur)
        /\ data[c].content # Undefined
        /\ noteId[c] \in DOMAIN notes
        /\ notes[noteId[c]].content = data[c].content

\* The scenario of C11: editor 1 updated the note with its first tag T0 and
\* succeeded (the note now carries T1); afterwards editor 2 called updateNote
\* with the stale T0, and none of its requests failed in transport.
StaleAfterUpdate ==
    /\ Done(1) /\ result[1].ok
    /\ callerEtag[1] = Tok(0)
    /\ Done(2)
    /\ noteId[2] = noteId[1]
    /\ calledAt[2] = {}
    /\ callerEtag[2] = Tok(0)
    /\ NoFault(2)

\* C11: in that scenario the stale call is rejected with precondition failure
\* on its initial attempt, refetches T1, retries with it and succeeds: it
\* returns the note with a new tag T2 # T1 and with its new field values.
C11_StaleCallRetriesWithRefetchedTag ==
    StaleAfterUpdate =>
        /\ InitialAttemptExhausted(2)
        /\ \A i \in 1..3 : sent[2][i].cur = Tok(1)
        /\ IsGet(sent[2][4]) /\ Accepted(sent[2][4])
        /\ sent[2][4].cur = Tok(1)
        /\ \A i \in 5..Len(sent[2]) : IsPut(sent[2][i]) /\ sent[2][i].rc = 1
        /\ Accepted(sent[2][Len(sent[2])])
        /\ result[2].ok
        /\ result[2].note.etag = Tok(2)
        /\ result[2].note.etag # Tok(1)
        /\ data[2].content # Undefined => result[2].note.content = data[2].content
        /\ data[2].title # Undefined => result[2].note.title = data[2].title
        /\ notes[noteId[2]].ver = 2

\* C11 witness: the stale call with new content has returned the note with
\* tag T2 and that content.
C11_Witness ==
    /\ StaleAfterUpdate
    /\ data[1].content = "y"
    /\ data[2].content = "y"
    /\ result[2].ok
    /\ result[2].note.content = "y"
    /\ result[2].note.etag = Tok(2)

\* The counter of an endpoint in the analytics a.
EndpointCount(a, e) == GetOrZero(a.requestsByEndpoint, e)

\* C12: after N trackRequest invocations for an endpoint, whatever other
\* requests were tracked in between and however many /mcp handlers are still
\* in flight, the endpoint's counter is N above its value at the start of the
\* process, and the request total is the sum of the invocations.
C12_EndpointCounterCountsEveryInvocation ==
    /\ \A e \in Endpoints :
          EndpointCount(analytics, e) = EndpointCount(loaded, e) + calls[e]
    /\ analytics.totalRequests =
          loaded.totalRequests + calls["/health"] + calls["/analytics"]
            + calls["/analytics/dashboard"] + calls["/mcp"] + calls["/"]

C12_Witness ==
    /\ calls["/mcp"] = 2
    /\ inflight = 2
    /\ EndpointCount(analytics, "/mcp") = 2

\* The shorter of n and the length of a sequence.
UpTo(seq, n) == IF Len(seq) < n THEN Len(seq) ELSE n

\* C13: the ring never holds more than 100 entries, lists them latest first,
\* and is the latest 100 (or all, when fewer) of the trackToolCall invocations
\* behind it; after more than 100 invocations it holds exactly 100.
C13_RingHoldsLatestHundred ==
    LET ring == analytics.recentToolCalls
    IN  /\ Len(ring) <= RecentToolCallsCap
        /\ ring = SubSeq(history, 1, UpTo(history, RecentToolCallsCap))
        /\ \A i, j \in DOMAIN ring : i < j => ring[i].timestamp >= ring[j].timestamp
        /\ Len(history) > RecentToolCallsCap => Len(ring) = RecentToolCallsCap

C13_Witness ==
    /\ Len(history) = RecentToolCallsCap + 2
    /\ Len(analytics.recentToolCalls) = RecentToolCallsCap
    /\ analytics.recentToolCalls[1] = history[1]
    /\ analytics.recentToolCalls[RecentToolCallsCap].timestamp = 2
    /\ runs = 1

\* The entries of obj, as a set.
Entries(obj) == {obj[i] : i \in DOMAIN obj}

\* C14: the summary lists at most 20 clients, those with the highest counts,
\* in descending order of count, and at most 24 hourly buckets, those with the
\* latest hour keys, in chronological order.
C14_SummaryListsTopClientsAndLatestHours ==
    response # NoResponse =>
        LET byIp == response.byIp
            hours == response.hourlyRequests
        IN  /\ Len(byIp) = UpTo(analytics.clientsByIp, TopClients)
            /\ Entries(byIp) \subseteq Entries(analytics.clientsByIp)
            /\ \A e \in Entries(byIp), o \in Entries(analytics.clientsByIp) \ Entries(byIp) :
                  o.v <= e.v
            /\ \A i, j \in DOMAIN byIp : i < j => byIp[i].v >= byIp[j].v
            /\ Len(hours) = UpTo(analytics.hourlyRequests, LastHours)
            /\ Entries(hours) \subseteq Entries(analytics.hourlyRequests)
            /\ \A e \in Entries(hours), o \in Entries(analytics.hourlyRequests) \ Entries(hours) :
                  HourKeyLess(o.k, e.k)
            /\ \A i, j \in DOMAIN hours : i < j => HourKeyLess(hours[i].k, hours[j].k)

\* The requests tracked since the process started.
RequestsSinceStart ==
    calls["/health"] + calls["/analytics"] + calls["/analytics/dashboard"]
      + calls["/mcp"] + calls["/"]

\* Whatever the saves did, in a running process the analytics in memory
\* account for every request tracked since the start.
FailedSavesLoseNothing ==
    up => analytics.totalRequests = loaded.totalRequests + RequestsSinceStart

\* C15: no handler ends by an error thrown while it tracks the request or the
\* tool call; and whatever the saves did, in a running process the analytics
\* in memory account for every request tracked since the start.
C15_TrackingAndFailedSavesNeverFail ==
    /\ settled # "threw"
    /\ FailedSavesLoseNothing

\* The zero-valued analytics: all counters 0, all maps and the ring empty.
IsZero(a) ==
    /\ a.totalRequests = 0 /\ a.totalToolCalls = 0
    /\ a.requestsByMethod = <<>> /\ a.requestsByEndpoint = <<>>
    /\ a.toolCalls = <<>> /\ a.recentToolCalls = <<>>
    /\ a.clientsByIp = <<>> /\ a.clientsByUserAgent = <<>>
    /\ a.hourlyRequests = <<>>

\* C16: a process can always be started, and it starts with the snapshot's
\* analytics when the file exists, can be read and holds a whole text, and
\* with the zero-valued analytics when the file is absent, unreadable or cut
\* short.
C16_StartsFromSnapshotOrZero ==
    /\ [][\A env \in {NoCredentials, EnvCredentials}, readable \in BOOLEAN :
            Start(env, readable) =>
                /\ up'
                /\ IF file.exists /\ readable /\ Len(file.text) = Len(FieldNames)
                   THEN Stringify(analytics') = file.text
                   ELSE IsZero(analytics')]_vars
    /\ [](~up => \A readable \in BOOLEAN : ENABLED Start(NoCredentials, readable))

\* A second process, started on a file cut short by a failed save after one
\* request, runs with the zero-valued analytics.
C16_Witness ==
    /\ up /\ runs = 2
    /\ file.exists /\ ParseThrows(file.text) /\ Len(file.text) > 1
    /\ file.text[2].value = 1
    /\ IsZero(loaded)
    /\ analytics = loaded

\* The file holds a whole text whose members are the fields of a, and
\* nothing else.
SnapshotIs(f, a) ==
    /\ f.exists
    /\ Len(f.text) = Len(FieldNames)
    /\ \A i \in DOMAIN FieldNames :
          \E j \in DOMAIN f.text :
              f.text[j].name = FieldNames[i] /\ f.text[j].value = a[FieldNames[i]]

\* C17: a termination signal whose write succeeds leaves the process stopped
\* and the file holding exactly the analytics of that moment, whatever the
\* file held before; a process then started on the readable file has every
\* counter, map and the ring as they were at the signal.
C17_ShutdownSaveThenLoadRoundTrip ==
    /\ [][\A k \in TruncatedLengths :
            Shutdown("ok", k) => ~up' /\ SnapshotIs(file', analytics)]_vars
    /\ [][\A env \in {NoCredentials, EnvCredentials} :
            Start(env, TRUE) /\ SnapshotIs(file, analytics) =>
                analytics' = analytics]_vars

\* A second process runs with the two requests, the tool call and the ring
\* entry of the first.
C17_Witness ==
    /\ up /\ runs = 2
    /\ SnapshotIs(file, loaded)
    /\ analytics = loaded
    /\ loaded.totalRequests = 2
    /\ loaded.totalToolCalls = 1
    /\ Len(loaded.recentToolCalls) = 1
    /\ EndpointCount(loaded, "/mcp") = 1

\* A duration of d ticks, as getUptime renders it.
Duration(d) == [hours |-> d \div TicksPerHour, rest |-> d % TicksPerHour]

\* C18: the uptime in the answer of GET /analytics is the time since the
\* running process started.
C18_UptimeSinceProcessStart ==
    [][\A req \in {PersistPage} :
          HandleAnalytics(req) => response'.uptime = Duration(now - processStart)]_vars

\* C19: every request to /mcp has been counted once and every tool invocation
\* carried by these requests has been counted once, as soon as the request is
\* in flight, and it stays so after its handling has ended either way.
C19_EveryMcpRequestAndToolCallRecordedOnce ==
    /\ EndpointCount(analytics, "/mcp") = EndpointCount(loaded, "/mcp") + calls["/mcp"]
    /\ analytics.totalToolCalls = loaded.totalToolCalls + carried
    /\ Len(history) = Len(loaded.recentToolCalls) + carried

\* The call of editor c awaits the answer of a PUT or of a GET.
Running(c) == pc[c] \in {"put", "get"}

\* C20: when every HTTP call returns, a call of updateNote that was made
\* ends, with the updated note or with an error for the caller, after at most
\* two rounds of three PUTs and one GET.
C20_UpdateNoteTerminates ==
    /\ Running(1) ~> Done(1)
    /\ [](Running(1) => Len(sent[1]) < 2 * Len(EtagFormats(etag[1])) + 1)
    /\ [](Done(1) => (result[1].ok /\ result[1].note # NoNote)
                       \/ (~result[1].ok /\ result[1].error # NoError))

C20_Witness ==
    /\ Done(1)
    /\ Len(sent[1]) = 2 * Len(EtagFormats(etag[1])) + 1
    /\ ~result[1].ok
    /\ Is412(result[1].error)

\* What a call sees of a request's answer: the status and, from a GET that
\* succeeded, the tag of the note returned.
ResponseOf(r) ==
    [status |-> r.status, etag |-> IF IsGet(r) /\ Accepted(r) THEN r.cur ELSE <<>>]

\* What a call sends, apart from the note of the url.
RequestOf(r) == [method |-> r.method, ifMatch |-> r.ifMatch, data |-> r.data]

\* The arguments of two calls agree, the note apart.
SameArguments(a, b) == callerEtag[a] = callerEtag[b] /\ data[a] = data[b]

\* C21: every call whose first attempt was rejected three times refetches,
\* whatever the other call did before or does meanwhile, on the same note or
\* on another; every request of a call goes to the note the call was given;
\* and two calls with the same tag and payload that got the same answers so
\* far send the same next request, each to its own note.
C21_CallsShareNoState ==
    /\ \A c \in Editors :
          /\ InitialAttemptExhausted(c) =>
                /\ Len(sent[c]) = 3 => pc[c] = "get"
                /\ Len(sent[c]) > 3 => IsGet(sent[c][4])
          /\ \A i \in DOMAIN sent[c] : sent[c][i].id = noteId[c]
    /\ \A a, b \in Editors :
          \A k \in DOMAIN sent[a] \cap DOMAIN sent[b] :
              (/\ pc[a] # "idle" /\ pc[b] # "idle"
               /\ SameArguments(a, b)
               /\ \A i \in 1..(k - 1) : ResponseOf(sent[a][i]) = ResponseOf(sent[b][i]))
              => RequestOf(sent[a][k]) = RequestOf(sent[b][k])

\* Two calls on different notes, the second made while the first was running,
\* each of which refetched once and then succeeded.
C21_Witness ==
    /\ Done(1) /\ Done(2)
    /\ noteId[1] # noteId[2]
    /\ calledAt[2] = {1}
    /\ InitialAttemptExhausted(1) /\ InitialAttemptExhausted(2)
    /\ NumGets(1) = 1 /\ NumGets(2) = 1
    /\ result[1].ok /\ result[2].ok

\* Two calls on the same note one after the other, each of which refetched
\* once and then succeeded.
C21_SameNoteInSequence ==
    /\ Done(1) /\ Done(2)
    /\ noteId[1] = noteId[2]
    /\ calledAt[2] = {}
    /\ InitialAttemptExhausted(1) /\ InitialAttemptExhausted(2)
    /\ NumGets(1) = 1 /\ NumGets(2) = 1
    /\ result[1].ok /\ result[2].ok

\* C23: the PUTs of a call all go to the note the caller named and all carry
\* the title, content and category of the first PUT, which are the caller's;
\* they differ in If-Match only.
C23_EveryPutCarriesTheCallersPayload ==
    \A c \in Editors :
        \A i, j \in DOMAIN sent[c] :
            IsPut(sent[c][i]) /\ IsPut(sent[c][j]) =>
                /\ sent[c][i].id = sent[c][j].id
                /\ sent[c][i].id = noteId[c]
                /\ sent[c][i].data = sent[c][j].data
                /\ sent[c][i].data \in Deltas
                /\ [sent[c][i] EXCEPT !.ifMatch = <<>>, !.status = 0, !.cur = <<>>, !.rc = 0]
                     = [sent[c][j] EXCEPT !.ifMatch = <<>>, !.status = 0, !.cur = <<>>, !.rc = 0]

\* A call that left title and category out went through both attempts, after
\* another client had changed the note, and its last PUT still leaves them out.
C23_Witness ==
    /\ Done(1) /\ NumPuts(1) = 6 /\ NumGets(1) = 1
    /\ extEdits > 0
    /\ sent[1][4].cur = Tok(1)
    /\ sent[1][7].data.title = Undefined
    /\ sent[1][7].data.content = "y"
    /\ sent[1][7].ifMatch # sent[1][1].ifMatch

\* The PUTs of the logical attempt rc of call c.
AttemptPuts(c, rc) == SelectSeq(sent[c], LAMBDA r : IsPut(r) /\ r.rc = rc)

\* The If-Match values of a sequence of requests.
IfMatchValues(rs) == {rs[i].ifMatch : i \in DOMAIN rs}

HasQuote(tag) == \E i \in DOMAIN tag : tag[i] = Q

\* C26: in a logical attempt that sent three PUTs, a tag without a double
\* quote gives two distinct If-Match values, the third PUT repeating the
\* first; a tag with a double quote gives three.
C26_ThirdEncodingRepeatsFirstForPlainTags ==
    \A c \in Editors, rc \in {0, 1} :
        LET puts == AttemptPuts(c, rc) IN
        Len(puts) = 3 =>
            IF HasQuote(puts[1].ifMatch)
            THEN Cardinality(IfMatchValues(puts)) = 3
            ELSE /\ puts[3].ifMatch = puts[1].ifMatch
                 /\ puts[2].ifMatch # puts[1].ifMatch
                 /\ Cardinality(IfMatchValues(puts)) = 2

\* A call with a quoted tag whose first attempt sent three distinct values
\* and whose recovery attempt, with the plain refetched tag, sent two.
C26_Witness ==
    /\ Done(1)
    /\ Len(AttemptPuts(1, 0)) = 3 /\ Len(AttemptPuts(1, 1)) = 3
    /\ HasQuote(callerEtag[1])
    /\ Cardinality(IfMatchValues(AttemptPuts(1, 0))) = 3
    /\ ~HasQuote(etag[1])
    /\ Cardinality(IfMatchValues(AttemptPuts(1, 1))) = 2

CredentialFields == {"host", "username", "password"}

\* The value a /mcp request resolves for a field: the query parameter when
\* it is given, else the environment variable.
Resolved(req, field) ==
    IF req.query[field] # "" THEN req.query[field] ELSE environment[field]

\* C22: a /mcp request replaces the stored credentials by the three resolved
\* values when none of them is empty, and leaves them as they were otherwise.
C22_CredentialsFromQueryElseEnvironment ==
    [][\A req \in McpRequests :
          HandleMcp(req) =>
              IF \A f \in CredentialFields : Resolved(req, f) # ""
              THEN \A f \in CredentialFields : credentials'[f] = Resolved(req, f)
              ELSE credentials' = credentials]_vars

\* The host came from the query, user name and password from the
\* environment.
C22_Witness ==
    /\ up
    /\ environment = [EnvCredentials EXCEPT !.host = ""]
    /\ credentials = [host |-> "h", username |-> "U", password |-> "P"]
    /\ calls["/mcp"] = 2

\* The sum of the counters of a map.
RECURSIVE CounterSum(_)
CounterSum(obj) == IF obj = <<>> THEN 0 ELSE Head(obj).v + CounterSum(Tail(obj))

\* Every counter of the map is a number and they add up to total.
AddsUpTo(obj, total) ==
    /\ \A i \in DOMAIN obj : IsNumber(obj[i].v)
    /\ CounterSum(obj) = total

\* C24: from the zero state on, the counters by method, by endpoint, by IP,
\* by user agent and by hour each add up to totalRequests, and the counters
\* by tool add up to totalToolCalls.
C24_TotalsEqualSums ==
    /\ AddsUpTo(analytics.requestsByMethod, analytics.totalRequests)
    /\ AddsUpTo(analytics.requestsByEndpoint, analytics.totalRequests)
    /\ AddsUpTo(analytics.clientsByIp, analytics.totalRequests)
    /\ AddsUpTo(analytics.clientsByUserAgent, analytics.totalRequests)
    /\ AddsUpTo(analytics.hourlyRequests, analytics.totalRequests)
    /\ AddsUpTo(analytics.toolCalls, analytics.totalToolCalls)

\* What trackRequest keeps, and what trackToolCall keeps.
RequestCounters(a) ==
    <<a.totalRequests, a.requestsByMethod, a.requestsByEndpoint, a.clientsByIp,
      a.clientsByUserAgent, a.hourlyRequests>>

ToolRecords(a) == <<a.totalToolCalls, a.toolCalls, a.recentToolCalls>>

\* The counters of the tools other than tool.
OtherTools(obj, tool) == {obj[i] : i \in {j \in DOMAIN obj : obj[j].k # tool}}

\* C25: trackToolCall changes only totalToolCalls, the counter of the named
\* tool and the ring of recent calls, and no request counter; trackRequest
\* changes neither totalToolCalls nor a tool's counter nor the ring; serving
\* /analytics changes nothing but what the trackRequest of that one request
\* changes.
C25_TrackersKeepEachOthersCounters ==
    /\ [](\A tool \in {HelloTool, UpdateTool}, ip \in {Ip(1), Ip(2)} :
            LET after == TrackToolCall(analytics, tool, ip, now)
            IN  /\ RequestCounters(after) = RequestCounters(analytics)
                /\ after.serverStartTime = analytics.serverStartTime
                /\ OtherTools(after.toolCalls, tool) = OtherTools(analytics.toolCalls, tool)
                /\ after.totalToolCalls = analytics.totalToolCalls + 1
                /\ after # analytics)
    /\ [](\A e \in Endpoints, req \in PageRequests \cup McpRequests :
            LET after == TrackRequest(analytics, req, e, now)
            IN  /\ ToolRecords(after) = ToolRecords(analytics)
                /\ after.serverStartTime = analytics.serverStartTime
                /\ after.totalRequests = analytics.totalRequests + 1)
    /\ [][\A req \in PageRequests :
            HandleAnalytics(req) =>
                /\ ToolRecords(analytics') = ToolRecords(analytics)
                /\ analytics'.serverStartTime = analytics.serverStartTime
                /\ analytics'.totalRequests = analytics.totalRequests + 1
                /\ CounterSum(analytics'.requestsByMethod)
                       = CounterSum(analytics.requestsByMethod) + 1
                /\ CounterSum(analytics'.requestsByEndpoint)
                       = CounterSum(analytics.requestsByEndpoint) + 1
                /\ CounterSum(analytics'.clientsByIp)
                       = CounterSum(analytics.clientsByIp) + 1
                /\ CounterSum(analytics'.clientsByUserAgent)
                       = CounterSum(analytics.clientsByUserAgent) + 1
                /\ CounterSum(analytics'.hourlyRequests)
                       = CounterSum(analytics.hourlyRequests) + 1
                /\ GetOrZero(analytics'.requestsByEndpoint, "/analytics")
                       = GetOrZero(analytics.requestsByEndpoint, "/analytics") + 1
                /\ UNCHANGED <<file, credentials, environment, inflight>>]_vars

\* A tool call has been recorded and a summary has been served after it.
C25_Witness ==
    /\ analytics.totalToolCalls >= 1
    /\ Len(analytics.recentToolCalls) >= 1
    /\ calls["/analytics"] >= 1
    /\ response # NoResponse
    /\ response.totalToolCalls >= 1

====
